---- MODULE Spec2Model ----
(***************************************************************************)
(* Tick-ingestion scheduler of src/logging/mt5_logger.py: the persisted    *)
(* watermark (save_state / load_state), the main loop with its periodic    *)
(* tasks (bar sync, depth snapshot, metadata, heartbeat), the tick fetch   *)
(* with its failure handler, the process-and-write step, the session       *)
(* transition log and the two exception handlers of the loop.              *)
(*                                                                         *)
(* Times are milliseconds since the epoch.  A source tick is identified by *)
(* its position in the source's history; src_time gives its time_msc.      *)
(***************************************************************************)
EXTENDS Integers, Sequences, FiniteSets, TLC

\* ------------------------------------------------------------------ bounds

\* Number of ticks in the source's history.
NTicks == 3

\* Cap of one fetch (TICK_BATCH = 1000 in the source, line 80), scaled down so
\* that a history of NTicks ticks crosses a batch boundary.
TICK_BATCH == 2

\* Wall-clock readings range over MinClock..MinClock + ClockSpan.
ClockSpan == 2

\* Number of process restarts explored.
MaxRestarts == 1

\* Number of forced watermark resets explored: the source stops raising when the
\* next failure would force one more.
MaxResets == 1

\* Number of times the wall clock jumps ahead by a task interval while the
\* process sleeps.
MaxJumps == 2

\* Bars asked of copy_rates_from_pos per timeframe (OHLCV_LOOKBACK = 100..500 in
\* the source, lines 100-103), scaled down.
OHLCV_LOOKBACK == 2

\* Number of bars that close, per timeframe, after the process has started.
NewBars == 2

\* Number of instants handed to check_session_change.
MaxFed == 3

\* ------------------------------------------------------- program constants

MAX_FAILS == 5

\* load_state: now_msc - 2000
LOAD_REWIND_MS == 2000

\* forced reset: int(time.time() * 1000) - 1000
RESET_REWIND_MS == 1000

\* mt5.last_error()[0] of a call that succeeded
RES_S_OK == 1

\* task intervals, seconds
HEARTBEAT_SEC == 10

OHLCV_SYNC_SEC == 60

DOM_SNAP_SEC == 5

META_LOG_SEC == 3600

\* time.sleep(0.5) of the fetch failure handler, in ms
BACKOFF_MS == 500

\* get_session: the hours (UTC) at which a session opens or closes
LONDON_OPEN == 7

OVERLAP_OPEN == 12

LONDON_CLOSE == 16

NEWYORK_CLOSE == 21

\* The timeframes synced (two of the nine of TIMEFRAMES, lines 88-98).
TIMEFRAMES == {"M1", "M5"}

\* The periodic tasks of the main loop.
Tasks == {"ohlcv", "dom", "meta", "heartbeat"}

\* interval of a task, in ms
Interval(task) ==
    1000 * (CASE task = "ohlcv"     -> OHLCV_SYNC_SEC
              [] task = "dom"       -> DOM_SNAP_SEC
              [] task = "meta"      -> META_LOG_SEC
              [] task = "heartbeat" -> HEARTBEAT_SEC)

\* ---------------------------------------------------------- environment

\* The earliest reading explored: late enough that now - 2000 and now - 1000
\* are positive, as they are for any real clock.
MinClock == LOAD_REWIND_MS + RESET_REWIND_MS + 1

MaxClock == MinClock + ClockSpan

Clocks == MinClock..MaxClock

\* time_msc values of source ticks: three consecutive milliseconds around the
\* watermark a fresh start resumes from (now - 2000), one tick stamped at
\* a wall-clock reading, and one stamped an hour after it (time_msc is the
\* broker server's time, not the local clock).
TickTimes == ((MinClock - LOAD_REWIND_MS)..(MinClock - LOAD_REWIND_MS + 2))
             \cup {MinClock + 1, MinClock + 3600 * 1000}

TickIds == 1..NTicks

\* The source's history is ordered by time; several ticks may share a millisecond.
Histories == {h \in [TickIds -> TickTimes] : \A i, j \in TickIds : i <= j => h[i] <= h[j]}

\* mt5.last_error()[0] values the fetch does not report as an error (line 449)
NoErrorCodes == {0, RES_S_OK}

\* mt5.last_error()[0] of a failed fetch: generic failure, IPC timeout
ErrorCodes == {-1, -10005}

\* Contents of STATE_FILE as load_state can find it.
\*   missing    open() raises FileNotFoundError
\*   unreadable open() raises another OSError (PermissionError, IsADirectoryError)
\*   badjson    json.load raises JSONDecodeError (also an empty or truncated file)
\*   nonobject  valid JSON that is no object ([], 3, "x", null): state.get fails
\*   nokey      an object without "last_time_msc"
\*   nonnumber  an object whose "last_time_msc" is a string or null
\*   num        an object whose "last_time_msc" is the number v
NoValueKinds == {"missing", "unreadable", "badjson", "nonobject", "nokey", "nonnumber"}

StateValues == {-5, 0, MinClock - LOAD_REWIND_MS + 1, MinClock + 1, MaxClock + 1000}

StateFiles == {[kind |-> k, v |-> 0] : k \in NoValueKinds}
              \cup {[kind |-> "num", v |-> x] : x \in StateValues}

\* The fetch raises at most this often: enough for MaxResets forced resets and
\* one failure more.
MaxRaises == MAX_FAILS * MaxResets + 1

\* How far the wall clock may jump while the process sleeps: one task interval.
Delays == {Interval(task) : task \in Tasks}

\* Period starts of the bars of a timeframe: bar k opens k periods after the
\* first bar of the source's history.
MaxBars == OHLCV_LOOKBACK + NewBars

BarTimes == 1..MaxBars

\* What copy_rates_from_pos does for a timeframe: returns the newest bars,
\* returns None, or raises.
Feeds == {"rates", "none", "raises"}

\* time_msc of the instant hh:mm UTC of the first day of the epoch
AtHourMinute(hh, mm) == (hh * 60 + mm) * 60 * 1000

\* Instants handed to check_session_change: midnight, and the minute before and
\* the minute of every session boundary.
SessionInstants ==
    {AtHourMinute(0, 0)}
    \cup {AtHourMinute(hh, 0) : hh \in {LONDON_OPEN, OVERLAP_OPEN, LONDON_CLOSE, NEWYORK_CLOSE}}
    \cup {AtHourMinute(hh - 1, 59) : hh \in {LONDON_OPEN, OVERLAP_OPEN, LONDON_CLOSE, NEWYORK_CLOSE}}

VARIABLES
    clock,          \* wall clock, ms: int(time.time() * 1000)
    src_time,       \* the source's tick history: tick id -> time_msc
    state_file,     \* STATE_FILE
    tick_csv,       \* TICK_CSV: the ticks appended, in order (tick ids)
    pc,             \* position of the process
    last_time_msc,  \* the in-memory watermark
    fail_count,     \* consecutive fetch failures
    total_ticks,    \* cumulative tick counter
    ticks_raw,      \* the batch of the current cycle (kept until line 443 of the next)
    last_error,     \* mt5.last_error()[0] after the last fetch
    same_batch,     \* history: the current cycle's fetch returned the previous cycle's non-empty batch
    restarts,       \* history: number of restarts so far
    resets,         \* history: number of forced watermark resets so far
    raises,         \* history: number of fetches that raised so far
    jumps,          \* history: number of clock jumps so far
    now,            \* time.time() read at the top of the iteration (line 425), ms
    last_heartbeat, \* the four "last run at" stamps, ms
    last_ohlcv_sync,
    last_dom_snap,
    last_meta_log,
    ran,            \* history: task -> how often its body ran in this iteration
    heartbeat_csv,  \* HEARTBEAT_CSV: number of rows
    dom_supported,  \* "None", "False" or "True"
    dom_csv,        \* DOM_CSV: number of snapshots appended
    dom_snaps,      \* history: number of snap_dom calls
    dom_calls,      \* history: number of snap_dom calls that made the depth calls
    dom_book,       \* history: what the depth calls of the last snap_dom did
    ohlcv_last_bar, \* timeframe -> period start of the last bar synced
    ohlcv_csv,      \* timeframe -> the period starts appended to its CSV, in order
    bar_latest,     \* the source: timeframe -> period start of its newest bar
    bar_feed,       \* the source: timeframe -> what the next copy_rates_from_pos does
    _current_session, \* "None" or a session label
    session_csv,    \* SESSION_CSV: the rows appended, in order
    fed             \* history: the instants handed to check_session_change so far

\* the periodic tasks' state
timerVars == <<now, last_heartbeat, last_ohlcv_sync, last_dom_snap, last_meta_log, ran>>

domVars == <<dom_supported, dom_csv, dom_snaps, dom_calls, dom_book>>

barVars == <<ohlcv_last_bar, ohlcv_csv, bar_latest, bar_feed>>

sessionVars == <<_current_session, session_csv, fed>>

\* the tick cycle's state, but for the wall clock and the position
tickVars == <<src_time, state_file, tick_csv, last_time_msc, fail_count, total_ticks,
              ticks_raw, last_error, same_batch, restarts, resets>>

\* everything but the tick cycle's state
sideVars == <<raises, jumps, timerVars, heartbeat_csv, domVars, barVars, sessionVars>>

vars == <<clock, src_time, state_file, tick_csv, pc, last_time_msc, fail_count,
          total_ticks, ticks_raw, last_error, same_batch, restarts, resets, sideVars>>

\* ------------------------------------------------------------- helpers

RECURSIVE SeqOf(_)
\* The ticks of S in history order, as the source returns them.
SeqOf(S) == IF S = {} THEN <<>>
            ELSE LET m == CHOOSE x \in S : \A y \in S : y <= x
                 IN Append(SeqOf(S \ {m}), m)

Range(s) == {s[k] : k \in 1..Len(s)}

\* int(ticks_raw["time_msc"].max())
MaxTimeMsc(raw) == CHOOSE t \in {src_time[raw[k]] : k \in 1..Len(raw)} :
                       \A k \in 1..Len(raw) : src_time[raw[k]] <= t

\* ------------------------------------------------------- watermark store

\* save_state: the file it writes (lines 161-166)
save_state(t) == [kind |-> "num", v |-> t]

\* load_state, lines 171-176: whether reading the file ends in an exception the
\* function does not catch.  Only FileNotFoundError and JSONDecodeError are caught:
\* another OSError from open(), AttributeError from state.get on a non-object and
\* TypeError from comparing a non-number (line 178) all propagate.
LoadRaises(file) == file.kind \in {"unreadable", "nonobject", "nonnumber"}

\* load_state, lines 171-176: v before clamping
ReadValue(file) == IF file.kind = "num" THEN file.v ELSE 0

ClampStrictZero(v, now_msc) == IF v < 0 \/ v > now_msc THEN now_msc - LOAD_REWIND_MS ELSE v

\* load_state, lines 177-180
Clamp(v, now_msc) == IF v <= 0 \/ v > now_msc THEN now_msc - LOAD_REWIND_MS ELSE v

load_state(file, now_msc) == Clamp(ReadValue(file), now_msc)

\* ------------------------------------------------------------ tick cycle

IsNewBatchNoWatermark(raw, wm) == Len(raw) > 0

\* lines 465-468: n > 0 and new_last > last_time_msc
IsNewBatch(raw, wm) == Len(raw) > 0 /\ MaxTimeMsc(raw) > wm

NextWatermarkNoStep(new_last) == new_last

\* line 472
NextWatermark(new_last) == new_last + 1

ResetDueLate(fc) == fc > MAX_FAILS

\* line 458
ResetDue(fc) == fc >= MAX_FAILS

\* line 459
ResetWatermark(now_msc) == now_msc - RESET_REWIND_MS

\* ------------------------------------------------------- periodic tasks

\* lines 428, 433, 438, 477: now - last_run >= interval
Due(t_now, last_run, task) == t_now - last_run >= Interval(task)

RunsCatchingUp(t_now, last_run, task) == (t_now - last_run) \div Interval(task)

\* How often the body of a task runs when it is checked: the `if` runs it once.
Runs(t_now, last_run, task) == IF Due(t_now, last_run, task) THEN 1 ELSE 0

\* lines 430, 435, 440, 479: the stamp after the check
Stamp(t_now, last_run, task) == IF Due(t_now, last_run, task) THEN t_now ELSE last_run

\* ---------------------------------------------------------- snap_dom

\* What the depth calls of one snap_dom do: market_book_get returns None or an
\* empty book, returns levels, returns levels whose append to DOM_CSV raises, or
\* one of the two calls raises.
Books == {"empty", "levels", "nowrite", "raises"}

DomStateForgetful(supported, book) ==
    IF supported = "False" THEN "False"
    ELSE CASE book = "raises" -> supported
           [] book = "empty"  -> "False"
           [] OTHER           -> "True"

\* lines 273-284: dom_supported after a snap_dom whose depth calls did `book`
DomState(supported, book) ==
    IF supported = "False" THEN "False"
    ELSE CASE book = "raises" -> supported
           [] book = "empty"  -> IF supported = "None" THEN "False" ELSE supported
           [] OTHER           -> "True"

\* lines 273-277: whether snap_dom calls market_book_add / market_book_get
DomCalls(supported) == IF supported = "False" THEN 0 ELSE 1

\* lines 285-300: snapshots appended to DOM_CSV
DomRows(supported, book) == IF supported # "False" /\ book = "levels" THEN 1 ELSE 0

\* --------------------------------------------------------- sync_ohlcv

MaxOf(S) == CHOOSE x \in S : \A y \in S : y <= x

\* line 235: the period starts of the bars copy_rates_from_pos(.., 0, lookback)
\* returns, the newest `lookback` bars; none when it returns None or raises.
Rates(feed, latest) ==
    IF feed = "rates" THEN {b \in BarTimes : latest - OHLCV_LOOKBACK < b /\ b <= latest}
                      ELSE {}

NewRatesInclusive(rates, cursor) == {b \in rates : b >= cursor}

\* line 248: df[df["time"] > ohlcv_last_bar[tf_name]]
NewRates(rates, cursor) == {b \in rates : b > cursor}

\* lines 249-255: the cursor after a sync
SyncedCursor(rates, cursor) ==
    IF NewRates(rates, cursor) = {} THEN cursor ELSE MaxOf(rates)

\* lines 249-254: the CSV after a sync
SyncedCsv(rates, cursor, csv) == csv \o SeqOf(NewRates(rates, cursor))

\* ------------------------------------------------------------ sessions

\* msc_to_dt, line 135: the hour and minute (UTC) of a time in ms
msc_to_dt(time_msc) ==
    [hour |-> (time_msc \div (3600 * 1000)) % 24, minute |-> (time_msc \div (60 * 1000)) % 60]

\* get_session, lines 138-147.  h = hour + minute / 60 is compared as 60 * h.
get_session(dt) ==
    LET h60 == dt.hour * 60 + dt.minute
    IN  IF OVERLAP_OPEN * 60 <= h60 /\ h60 < LONDON_CLOSE * 60 THEN "LondonNY_Overlap"
        ELSE IF LONDON_OPEN * 60 <= h60 /\ h60 < LONDON_CLOSE * 60 THEN "London"
        ELSE IF OVERLAP_OPEN * 60 <= h60 /\ h60 < NEWYORK_CLOSE * 60 THEN "NewYork"
        ELSE "Asia"

check_session_change_always(dt) ==
    LET sess == get_session(dt)
    IN  /\ fed' = Append(fed, dt)
        /\ session_csv' = Append(session_csv, [session |-> sess, prev |-> _current_session])
        /\ _current_session' = sess

\* check_session_change, lines 336-349.
check_session_change(dt) ==
    LET sess == get_session(dt)
    IN  /\ fed' = Append(fed, dt)
        /\ IF sess # _current_session
              THEN /\ session_csv' = Append(session_csv, [session |-> sess, prev |-> _current_session])
                   /\ _current_session' = sess
              ELSE UNCHANGED <<_current_session, session_csv>>

\* Any result a fetch may hand back: at most TICK_BATCH ticks of the history.
AnyBatches == {SeqOf(S) : S \in {T \in SUBSET TickIds : Cardinality(T) <= TICK_BATCH}}

\* A source that answers "the oldest ticks with time_msc >= since, up to count".
OldestFrom(since, count) ==
    LET S == {i \in TickIds : src_time[i] >= since}
        T == {i \in S : Cardinality({j \in S : j < i}) < count}
    IN SeqOf(T)

Init ==
    /\ clock \in Clocks
    /\ src_time \in Histories
    /\ state_file \in StateFiles
    /\ tick_csv = <<>>
    /\ pc = "init"
    /\ last_time_msc = 0
    /\ fail_count = 0
    /\ total_ticks = 0
    /\ ticks_raw = <<>>
    /\ last_error = RES_S_OK
    /\ same_batch = FALSE
    /\ restarts = 0
    /\ resets = 0
    /\ raises = 0
    /\ jumps = 0
    /\ now = 0
    /\ last_heartbeat = 0
    /\ last_ohlcv_sync = 0
    /\ last_dom_snap = 0
    /\ last_meta_log = 0
    /\ ran = [task \in Tasks |-> 0]
    /\ heartbeat_csv = 0
    /\ dom_supported = "None"
    /\ dom_csv = 0
    /\ dom_snaps = 0
    /\ dom_calls = 0
    /\ dom_book = "uncalled"
    /\ ohlcv_last_bar = [tf \in TIMEFRAMES |-> 0]
    /\ ohlcv_csv = [tf \in TIMEFRAMES |-> <<>>]
    /\ bar_latest = [tf \in TIMEFRAMES |-> OHLCV_LOOKBACK]
    /\ bar_feed = [tf \in TIMEFRAMES |-> "rates"]
    /\ _current_session = "None"
    /\ session_csv = <<>>
    /\ fed = <<>>

\* sync_ohlcv, lines 233-258, for one timeframe.
sync_ohlcv(tf) ==
    LET rates == Rates(bar_feed[tf], bar_latest[tf])
    IN  /\ ohlcv_last_bar' = [ohlcv_last_bar EXCEPT ![tf] = SyncedCursor(rates, ohlcv_last_bar[tf])]
        /\ ohlcv_csv' = [ohlcv_csv EXCEPT ![tf] = SyncedCsv(rates, ohlcv_last_bar[tf], ohlcv_csv[tf])]

\* sync_all_ohlcv, lines 260-262: sync_ohlcv for every timeframe.
sync_all_ohlcv ==
    /\ ohlcv_last_bar' = [tf \in TIMEFRAMES |->
                             SyncedCursor(Rates(bar_feed[tf], bar_latest[tf]), ohlcv_last_bar[tf])]
    /\ ohlcv_csv' = [tf \in TIMEFRAMES |->
                        SyncedCsv(Rates(bar_feed[tf], bar_latest[tf]), ohlcv_last_bar[tf], ohlcv_csv[tf])]

\* Startup, lines 396-405: the connection, the metadata row (META_CSV, which no
\* step reads, is left out) and the first sync of the bars.
InitialSync ==
    /\ pc = "init"
    /\ sync_all_ohlcv
    /\ pc' = "load"
    /\ UNCHANGED <<clock, tickVars, raises, jumps, timerVars, heartbeat_csv, domVars,
                   bar_latest, bar_feed, sessionVars>>

\* Startup, lines 407-413.  An exception out of load_state ends the process.
Startup ==
    /\ pc = "load"
    /\ IF LoadRaises(state_file)
          THEN /\ pc' = "dead"
               /\ UNCHANGED <<last_time_msc, fail_count, total_ticks, last_heartbeat,
                              last_ohlcv_sync, last_dom_snap, last_meta_log>>
          ELSE /\ pc' = "top"
               /\ last_time_msc' = load_state(state_file, clock)
               /\ last_heartbeat' = clock
               /\ last_ohlcv_sync' = clock
               /\ last_dom_snap' = clock
               /\ last_meta_log' = clock
               /\ fail_count' = 0
               /\ total_ticks' = 0
    /\ UNCHANGED <<clock, src_time, state_file, tick_csv, ticks_raw, last_error,
                   same_batch, restarts, resets, raises, jumps, now, ran, heartbeat_csv,
                   domVars, barVars, sessionVars>>

\* Line 425: the iteration reads the clock.
LoopTop ==
    /\ pc = "top"
    /\ now' = clock
    /\ ran' = [task \in Tasks |-> 0]
    /\ pc' = "ohlcv"
    /\ UNCHANGED <<clock, tickVars, raises, jumps, last_heartbeat, last_ohlcv_sync,
                   last_dom_snap, last_meta_log, heartbeat_csv, domVars, barVars, sessionVars>>

\* Lines 428-430.
OhlcvTask ==
    /\ pc = "ohlcv"
    /\ IF Due(now, last_ohlcv_sync, "ohlcv")
          THEN sync_all_ohlcv
          ELSE UNCHANGED <<ohlcv_last_bar, ohlcv_csv>>
    /\ ran' = [ran EXCEPT !["ohlcv"] = Runs(now, last_ohlcv_sync, "ohlcv")]
    /\ last_ohlcv_sync' = Stamp(now, last_ohlcv_sync, "ohlcv")
    /\ pc' = "dom"
    /\ UNCHANGED <<clock, tickVars, raises, jumps, now, last_heartbeat, last_dom_snap,
                   last_meta_log, heartbeat_csv, domVars, bar_latest, bar_feed, sessionVars>>

\* snap_dom, lines 271-303, its depth calls doing `book`.
snap_dom(book) ==
    /\ dom_snaps' = dom_snaps + 1
    /\ dom_calls' = dom_calls + DomCalls(dom_supported)
    /\ dom_book' = IF DomCalls(dom_supported) = 0 THEN "uncalled" ELSE book
    /\ dom_supported' = DomState(dom_supported, book)
    /\ dom_csv' = dom_csv + DomRows(dom_supported, book)

\* Lines 433-435.
DomTask ==
    /\ pc = "dom"
    /\ IF Due(now, last_dom_snap, "dom")
          THEN \E book \in Books : snap_dom(book)
          ELSE UNCHANGED domVars
    /\ ran' = [ran EXCEPT !["dom"] = Runs(now, last_dom_snap, "dom")]
    /\ last_dom_snap' = Stamp(now, last_dom_snap, "dom")
    /\ pc' = "meta"
    /\ UNCHANGED <<clock, tickVars, raises, jumps, now, last_heartbeat, last_ohlcv_sync,
                   last_meta_log, heartbeat_csv, barVars, sessionVars>>

\* Lines 438-440.  log_metadata (lines 318-328) appends to META_CSV only.
MetaTask ==
    /\ pc = "meta"
    /\ ran' = [ran EXCEPT !["meta"] = Runs(now, last_meta_log, "meta")]
    /\ last_meta_log' = Stamp(now, last_meta_log, "meta")
    /\ pc' = "fetch"
    /\ UNCHANGED <<clock, tickVars, raises, jumps, now, last_heartbeat, last_ohlcv_sync,
                   last_dom_snap, heartbeat_csv, domVars, barVars, sessionVars>>

\* Lines 443-452 when copy_ticks_from returns the array `batch`.
FetchReturns(batch) ==
    /\ pc = "fetch"
    /\ ticks_raw' = batch
    /\ same_batch' = (batch # <<>> /\ batch = ticks_raw)
    /\ last_error' = RES_S_OK
    /\ fail_count' = 0
    /\ pc' = "process"
    /\ UNCHANGED <<clock, src_time, state_file, tick_csv, last_time_msc, total_ticks,
                   restarts, resets, sideVars>>

\* The source may return anything.
FetchAny == \E batch \in AnyBatches : FetchReturns(batch)

\* The source returns the oldest ticks at or after the watermark, up to the cap.
FetchFrom == FetchReturns(OldestFrom(last_time_msc, TICK_BATCH))

\* Lines 443-452 when copy_ticks_from returns None: err is mt5.last_error()[0].
\* An error code is logged (line 450); the result is treated as an empty batch.
FetchNone(err) ==
    /\ pc = "fetch"
    /\ ticks_raw' = <<>>
    /\ same_batch' = FALSE
    /\ last_error' = err
    /\ fail_count' = 0
    /\ pc' = "process"
    /\ UNCHANGED <<clock, src_time, state_file, tick_csv, last_time_msc, total_ticks,
                   restarts, resets, sideVars>>

FetchNoTicks == FetchNone(RES_S_OK)

FetchErrorResult == \E err \in ErrorCodes : FetchNone(err)

\* Lines 443-457 when copy_ticks_from raises: the counter is incremented and the
\* handler sleeps 0.5 s.
FetchRaises ==
    /\ pc = "fetch"
    /\ raises < MaxRaises
    /\ ResetDue(fail_count + 1) => resets < MaxResets
    /\ raises' = raises + 1
    /\ ticks_raw' = <<>>
    /\ same_batch' = FALSE
    /\ fail_count' = fail_count + 1
    /\ clock' = clock + BACKOFF_MS
    /\ pc' = "backoff"
    /\ UNCHANGED <<src_time, state_file, tick_csv, last_time_msc, total_ticks,
                   last_error, restarts, resets, jumps, timerVars, heartbeat_csv, domVars,
                   barVars, sessionVars>>

AfterBackoffKeepingCount ==
    /\ pc = "backoff"
    /\ IF ResetDue(fail_count)
          THEN /\ last_time_msc' = ResetWatermark(clock)
               /\ resets' = resets + 1
          ELSE UNCHANGED <<last_time_msc, resets>>
    /\ pc' = "top"
    /\ UNCHANGED <<clock, src_time, state_file, tick_csv, fail_count, total_ticks, ticks_raw,
                   last_error, same_batch, restarts, sideVars>>

\* Lines 458-462, after the sleep: the forced reset, then `continue`, which
\* starts the next iteration.
AfterBackoff ==
    /\ pc = "backoff"
    /\ IF ResetDue(fail_count)
          THEN /\ last_time_msc' = ResetWatermark(clock)
               /\ fail_count' = 0
               /\ resets' = resets + 1
          ELSE UNCHANGED <<last_time_msc, fail_count, resets>>
    /\ pc' = "top"
    /\ UNCHANGED <<clock, src_time, state_file, tick_csv, total_ticks, ticks_raw,
                   last_error, same_batch, restarts, sideVars>>

\* Lines 465-470: the whole batch is enriched and appended when its newest tick
\* is past the watermark; otherwise the cycle goes on to the heartbeat and sleep.
ProcessTicks ==
    /\ pc = "process"
    /\ IF IsNewBatch(ticks_raw, last_time_msc)
          THEN /\ tick_csv' = tick_csv \o ticks_raw
               /\ pc' = "advance"
          ELSE /\ pc' = "heartbeat"
               /\ UNCHANGED tick_csv
    /\ UNCHANGED <<clock, src_time, state_file, last_time_msc, fail_count, total_ticks,
                   ticks_raw, last_error, same_batch, restarts, resets, sideVars>>

\* Lines 469-470 raising (append_ticks cannot open TICK_CSV): nothing is
\* appended and the exception goes to the outer handler, line 490.
AppendRaises ==
    /\ pc = "process"
    /\ IsNewBatch(ticks_raw, last_time_msc)
    /\ pc' = "error"
    /\ UNCHANGED <<clock, tickVars, sideVars>>

\* Lines 471-472.
Advance ==
    /\ pc = "advance"
    /\ total_ticks' = total_ticks + Len(ticks_raw)
    /\ last_time_msc' = NextWatermark(MaxTimeMsc(ticks_raw))
    /\ pc' = "save"
    /\ UNCHANGED <<clock, src_time, state_file, tick_csv, fail_count, ticks_raw,
                   last_error, same_batch, restarts, resets, sideVars>>

\* Line 473, the write succeeding.
SaveState ==
    /\ pc = "save"
    /\ state_file' = save_state(last_time_msc)
    /\ pc' = "session"
    /\ UNCHANGED <<clock, src_time, tick_csv, last_time_msc, fail_count, total_ticks,
                   ticks_raw, last_error, same_batch, restarts, resets, sideVars>>

\* Line 473, the write failing (lines 167-168 log and go on): open() fails and the
\* file is as it was, or the write fails after open() truncated the file.
SaveStateFails ==
    /\ pc = "save"
    /\ \/ UNCHANGED state_file
       \/ state_file' = [kind |-> "badjson", v |-> 0]
    /\ pc' = "session"
    /\ UNCHANGED <<clock, src_time, tick_csv, last_time_msc, fail_count, total_ticks,
                   ticks_raw, last_error, same_batch, restarts, resets, sideVars>>

\* Line 474: check_session_change(msc_to_dt(new_last)).
SessionCheck ==
    /\ pc = "session"
    /\ check_session_change(msc_to_dt(MaxTimeMsc(ticks_raw)))
    /\ pc' = "heartbeat"
    /\ UNCHANGED <<clock, tickVars, raises, jumps, timerVars, heartbeat_csv, domVars, barVars>>

HeartbeatStampingAll ==
    /\ pc = "heartbeat"
    /\ \E rows \in {0, 1} :
           heartbeat_csv' = heartbeat_csv + rows * Runs(now, last_heartbeat, "heartbeat")
    /\ ran' = [ran EXCEPT !["heartbeat"] = Runs(now, last_heartbeat, "heartbeat")]
    /\ last_heartbeat' = Stamp(now, last_heartbeat, "heartbeat")
    /\ last_dom_snap' = Stamp(now, last_heartbeat, "heartbeat")
    /\ pc' = "sleep"
    /\ UNCHANGED <<clock, tickVars, raises, jumps, now, last_ohlcv_sync,
                   last_meta_log, domVars, barVars, sessionVars>>

\* Lines 477-479.  log_heartbeat (lines 355-381) appends one row, or logs its own
\* exception and appends none.
Heartbeat ==
    /\ pc = "heartbeat"
    /\ \E rows \in {0, 1} :
           heartbeat_csv' = heartbeat_csv + rows * Runs(now, last_heartbeat, "heartbeat")
    /\ ran' = [ran EXCEPT !["heartbeat"] = Runs(now, last_heartbeat, "heartbeat")]
    /\ last_heartbeat' = Stamp(now, last_heartbeat, "heartbeat")
    /\ pc' = "sleep"
    /\ UNCHANGED <<clock, tickVars, raises, jumps, now, last_ohlcv_sync, last_dom_snap,
                   last_meta_log, domVars, barVars, sessionVars>>

\* Line 481.
Sleep ==
    /\ pc = "sleep"
    /\ pc' = "top"
    /\ UNCHANGED <<clock, tickVars, sideVars>>

\* Lines 490-492: the outer handler logs, sleeps 1 s and the loop goes on.
ErrorSleep ==
    /\ pc = "error"
    /\ pc' = "top"
    /\ UNCHANGED <<clock, tickVars, sideVars>>

\* Time passes.
ClockTick ==
    /\ clock < MaxClock
    /\ clock' = clock + 1
    /\ UNCHANGED <<pc, tickVars, sideVars>>

\* The process is in one of its sleeps: lines 457, 481, 492.
Sleeping == pc \in {"backoff", "sleep", "error"}

\* While the process sleeps the wall clock jumps ahead by a task interval (the
\* machine was suspended, the clock was stepped, the sleep overran).
TimePasses ==
    /\ Sleeping
    /\ jumps < MaxJumps
    /\ jumps' = jumps + 1
    /\ \E d \in Delays : clock' = clock + d
    /\ UNCHANGED <<pc, tickVars, raises, timerVars, heartbeat_csv, domVars, barVars, sessionVars>>

\* The try body of the loop, lines 424-481.
InLoop == pc \in {"top", "ohlcv", "dom", "meta", "fetch", "backoff", "process", "advance",
                  "save", "session", "heartbeat", "sleep"}

\* Lines 483-488: KeyboardInterrupt anywhere in the try body.
Interrupt ==
    /\ InLoop
    /\ state_file' = save_state(last_time_msc)
    /\ pc' = "stopped"
    /\ UNCHANGED <<clock, src_time, tick_csv, last_time_msc, fail_count, total_ticks,
                   ticks_raw, last_error, same_batch, restarts, resets, sideVars>>

\* KeyboardInterrupt during the sleep of the outer handler, line 492: an
\* exception raised inside an except clause is not handled by the other clauses
\* of its try statement, so it leaves the loop and ends the process.
InterruptInHandler ==
    /\ pc = "error"
    /\ pc' = "aborted"
    /\ UNCHANGED <<clock, tickVars, sideVars>>

\* The process is killed (power loss, kill -9) between two steps.
Crash ==
    /\ InLoop \/ pc = "error"
    /\ pc' = "stopped"
    /\ UNCHANGED <<clock, tickVars, sideVars>>

\* The script is started again: module state is fresh, the files are as left.
Restart ==
    /\ pc \in {"stopped", "aborted"}
    /\ restarts < MaxRestarts
    /\ restarts' = restarts + 1
    /\ pc' = "init"
    /\ last_time_msc' = 0
    /\ fail_count' = 0
    /\ total_ticks' = 0
    /\ ticks_raw' = <<>>
    /\ last_error' = RES_S_OK
    /\ same_batch' = FALSE
    /\ ran' = [task \in Tasks |-> 0]
    /\ dom_supported' = "None"
    /\ ohlcv_last_bar' = [tf \in TIMEFRAMES |-> 0]
    /\ _current_session' = "None"
    /\ fed' = <<>>
    /\ UNCHANGED <<clock, src_time, state_file, tick_csv, resets, raises, jumps, now,
                   last_heartbeat, last_ohlcv_sync, last_dom_snap, last_meta_log,
                   heartbeat_csv, dom_csv, dom_snaps, dom_calls, dom_book, ohlcv_csv, bar_latest,
                   bar_feed, session_csv>>

\* The source: a bar of timeframe tf closes and the next one opens.
BarCloses ==
    \E tf \in TIMEFRAMES :
        /\ bar_latest[tf] < MaxBars
        /\ bar_latest' = [bar_latest EXCEPT ![tf] = bar_latest[tf] + 1]
        /\ UNCHANGED <<clock, pc, tickVars, raises, jumps, timerVars, heartbeat_csv, domVars,
                       ohlcv_last_bar, ohlcv_csv, bar_feed, sessionVars>>

\* The source: copy_rates_from_pos starts or stops failing for a timeframe.
FeedChanges ==
    \E tf \in TIMEFRAMES, feed \in Feeds :
        /\ feed # bar_feed[tf]
        /\ bar_feed' = [bar_feed EXCEPT ![tf] = feed]
        /\ UNCHANGED <<clock, pc, tickVars, raises, jumps, timerVars, heartbeat_csv, domVars,
                       ohlcv_last_bar, ohlcv_csv, bar_latest, sessionVars>>

\* The steps of an iteration around the tick cycle: the clock reading, the three
\* tasks before the fetch, the session check and the heartbeat.
Periodic == LoopTop \/ OhlcvTask \/ DomTask \/ MetaTask \/ SessionCheck \/ Heartbeat

\* Normal operation: every fetch returns, whatever the source hands back.
Next ==
    \/ InitialSync \/ Startup \/ Periodic
    \/ FetchAny \/ FetchNoTicks \/ ProcessTicks \/ Advance \/ SaveState \/ Sleep

Spec == Init /\ [][Next]_vars

\* A source that honours the request: no failures, no restarts.
NextSource ==
    \/ InitialSync \/ Startup \/ Periodic
    \/ FetchFrom \/ ProcessTicks \/ Advance \/ SaveState \/ Sleep

SpecSource == Init /\ [][NextSource]_vars

\* The loop is `while True`: the process always takes its next step.
FairSpecSource == SpecSource /\ WF_vars(NextSource)

\* The first start of the program: there is no state file yet, and every later
\* content of the file is what the process wrote.
InitFresh == Init /\ state_file.kind = "missing"

\* Fetch failures: the fetch returns ticks, returns its error result, or raises.
\* Time passes in the sleeps of the failure handler.
NextFail ==
    \/ InitialSync \/ Startup \/ Periodic
    \/ FetchFrom \/ FetchErrorResult \/ FetchRaises \/ AfterBackoff
    \/ ProcessTicks \/ Advance \/ SaveState \/ Sleep

SpecFail == InitFresh /\ [][NextFail]_vars

\* Stops and restarts of the process, with a source that honours the request.
NextRestart ==
    \/ InitialSync \/ Startup \/ Periodic
    \/ FetchFrom \/ ProcessTicks \/ Advance \/ SaveState \/ SaveStateFails
    \/ Sleep \/ ClockTick \/ Interrupt \/ Crash \/ Restart

SpecRestart == InitFresh /\ [][NextRestart]_vars

\* load_state alone, over every state file and clock reading.
NextLoad == InitialSync \/ Startup \/ ClockTick

SpecLoad == Init /\ [][NextLoad]_vars

\* The "last run at" stamp of a task.
LastRun(task) ==
    CASE task = "ohlcv"     -> last_ohlcv_sync
      [] task = "dom"       -> last_dom_snap
      [] task = "meta"      -> last_meta_log
      [] task = "heartbeat" -> last_heartbeat

\* One first start: the last tick of the history is stamped an hour after the
\* clock reading, the one before it just after the reading, the others just
\* past the watermark a fresh start resumes from.
QuietHistory ==
    [i \in TickIds |-> IF i = NTicks THEN MinClock + 3600 * 1000
                       ELSE IF i = NTicks - 1 THEN MinClock + 1
                       ELSE MinClock - LOAD_REWIND_MS + 1]

InitQuiet == InitFresh /\ clock = MinClock /\ src_time = QuietHistory

\* The scheduler: a source that honours the request, and a wall clock that
\* jumps ahead by task intervals while the process sleeps.
NextSched ==
    \/ InitialSync \/ Startup \/ Periodic
    \/ FetchFrom \/ ProcessTicks \/ Advance \/ SaveState \/ Sleep \/ TimePasses

SpecSched == InitQuiet /\ [][NextSched]_vars

\* The loop under faults: the fetch returns ticks or raises, the append to the
\* tick log may raise, and the wall clock jumps ahead once.
NextFaults ==
    \/ InitialSync \/ Startup \/ Periodic
    \/ FetchFrom \/ FetchRaises \/ AfterBackoff
    \/ ProcessTicks \/ AppendRaises \/ Advance \/ SaveState \/ Sleep \/ ErrorSleep
    \/ (jumps = 0 /\ TimePasses)

SpecFaults == InitQuiet /\ [][NextFaults]_vars

\* Interrupts: Ctrl-C arrives at any point of the loop, the try body or the
\* outer handler, while the fetch returns or raises and the append may raise.
NextShutdown ==
    \/ InitialSync \/ Startup \/ Periodic
    \/ FetchFrom \/ FetchRaises \/ AfterBackoff
    \/ ProcessTicks \/ AppendRaises \/ Advance \/ SaveState \/ Sleep \/ ErrorSleep
    \/ Interrupt \/ InterruptInHandler

SpecShutdown == InitQuiet /\ [][NextShutdown]_vars

\* One timeframe is synced.
SyncOne ==
    /\ \E tf \in TIMEFRAMES : sync_ohlcv(tf)
    /\ UNCHANGED <<clock, pc, tickVars, raises, jumps, timerVars, heartbeat_csv, domVars,
                   bar_latest, bar_feed, sessionVars>>

\* sync_ohlcv alone, from process start, while bars close and the rates call
\* starts and stops failing.
NextBars == SyncOne \/ BarCloses \/ FeedChanges

SpecBars == InitQuiet /\ [][NextBars]_vars

\* check_session_change is handed an instant.
FeedInstant ==
    /\ Len(fed) < MaxFed
    /\ \E t \in SessionInstants : check_session_change(msc_to_dt(t))
    /\ UNCHANGED <<clock, pc, tickVars, raises, jumps, timerVars, heartbeat_csv, domVars, barVars>>

\* check_session_change alone, from process start, over every sequence of
\* instants.
SpecSession == InitQuiet /\ [][FeedInstant]_vars

\* ================================================================ claims

Logged(i) == i \in Range(tick_csv)

\* time_msc of the newest tick in the tick log
MaxLogged == CHOOSE t \in {src_time[i] : i \in Range(tick_csv)} :
                 \A i \in Range(tick_csv) : src_time[i] <= t

\* C1: with every fetch returning and no forced reset, the watermark never
\* decreases, and outside the two lines between the append and the advance it is
\* strictly greater than the time_msc of every tick appended so far.
WatermarkMonotone ==
    /\ [][pc # "load" => last_time_msc' >= last_time_msc]_vars
    /\ [](pc # "advance" => \A i \in Range(tick_csv) : src_time[i] < last_time_msc)

\* C1 witness: two batches were appended and the second cycle has ended.
WatermarkMonotoneWitness ==
    /\ pc = "top"
    /\ Len(tick_csv) > Len(ticks_raw)
    /\ Len(ticks_raw) > 0
    /\ last_time_msc = MaxLogged + 1

\* C2: whatever the fetch returns, no source tick is in the tick log twice.
NoTickLoggedTwice ==
    \A k, l \in 1..Len(tick_csv) : k # l => tick_csv[k] # tick_csv[l]

\* C3: with a source returning the oldest ticks at or after the watermark, up to
\* the cap, every tick at or after the watermark is eventually in the tick log.
NoTickSkipped ==
    \A i \in TickIds : (InLoop /\ src_time[i] >= last_time_msc) ~> Logged(i)

\* C4: in a cycle whose fetch returned the previous cycle's non-empty batch, the
\* batch's newest tick is not past the watermark, and no step changes the tick
\* log, the watermark, the state file or the tick counter.
SameBatchIdempotent ==
    /\ [](same_batch => MaxTimeMsc(ticks_raw) <= last_time_msc)
    /\ [][same_batch => UNCHANGED <<tick_csv, last_time_msc, state_file, total_ticks>>]_vars

\* C4 witness: the first cycle appended the batch, the second returned it again
\* and has run to its end.
SameBatchWitness ==
    /\ same_batch
    /\ pc = "sleep"
    /\ tick_csv = ticks_raw
    /\ total_ticks = Len(ticks_raw)

\* C5: across stops and restarts the process resumes exactly where it left off:
\* no tick is in the tick log twice, and the watermark a restarted process resumes
\* from (its watermark until it appends its first batch) is not past any unlogged
\* tick newer than the newest logged one.
ResumesWhereItLeftOff ==
    /\ \A k, l \in 1..Len(tick_csv) : k # l => tick_csv[k] # tick_csv[l]
    /\ (restarts > 0 /\ InLoop /\ pc # "advance" /\ total_ticks = 0 /\ tick_csv # <<>>)
           => \A i \in TickIds :
                  (~Logged(i) /\ src_time[i] > MaxLogged) => src_time[i] >= last_time_msc

EveryFetchErrorCounts ==
    [][(pc = "fetch" /\ pc' \in {"backoff", "process"}) =>
          IF pc' = "backoff" \/ last_error' \notin NoErrorCodes
             THEN fail_count' = fail_count + 1
             ELSE fail_count' = 0]_vars

\* C8: load_state returns now - 2000 ms for a persisted value that is 0, negative
\* or greater than now, and the persisted value itself when 0 < v <= now.
LoadStateClamps ==
    [][(pc = "load" /\ pc' # "load" /\ state_file.kind = "num") =>
          /\ pc' = "top"
          /\ state_file.v = 0 => last_time_msc' = clock - LOAD_REWIND_MS
          /\ state_file.v < 0 => last_time_msc' = clock - LOAD_REWIND_MS
          /\ state_file.v > clock => last_time_msc' = clock - LOAD_REWIND_MS
          /\ (0 < state_file.v /\ state_file.v <= clock) => last_time_msc' = state_file.v]_vars

\* C8 witness: a persisted value in the future was loaded as now - 2000 ms.
LoadStateClampsWitness ==
    /\ pc = "top"
    /\ state_file.kind = "num"
    /\ state_file.v > clock
    /\ last_time_msc = clock - LOAD_REWIND_MS

\* C9: whatever is wrong with the state file, load_state raises nothing and
\* returns now - 2000 ms, so startup proceeds.
LoadFailsSoft ==
    [][(pc = "load" /\ pc' # "load" /\ state_file.kind # "num") =>
          pc' = "top" /\ last_time_msc' = clock - LOAD_REWIND_MS]_vars

\* C10: while the process runs, the watermark is greater than 0 and not after the
\* wall clock.
WatermarkInRange ==
    InLoop => (0 < last_time_msc /\ last_time_msc <= clock)

\* The session labels of the instants checked so far.
FedLabels == [k \in 1..Len(fed) |-> get_session(fed[k])]

\* Number of session boundaries the instants checked so far cross.
Crossings == Cardinality({k \in 1..(Len(fed) - 1) : FedLabels[k] # FedLabels[k + 1]})

\* C11: from process start, instants that all map to one session label produce
\* no session event, and instants that cross exactly one session boundary
\* produce exactly one.
SessionEdgeTriggered ==
    /\ Crossings = 0 => Len(session_csv) = 0
    /\ Crossings = 1 => Len(session_csv) = 1

\* C12: an iteration ends, in the sleep of line 481 or in the `continue` of the
\* fetch failure handler, with no task still due at the iteration's clock
\* reading: every task that was due has run and has its stamp set to it.
DueTasksRun ==
    [][(pc \in {"sleep", "backoff"} /\ pc' = "top") =>
          \A task \in Tasks : ~Due(now, LastRun(task), task)]_vars

\* C13: no task runs more than once in an iteration: checked when due, however
\* long ago, it runs once, its stamp becomes the iteration's clock reading, and
\* that reading is at least the task's interval after the stamp it replaces (the
\* reading of the task's previous run).
NoCatchUp ==
    /\ [](\A task \in Tasks : ran[task] <= 1)
    /\ [][\A task \in Tasks :
            (pc = task /\ pc' # task) =>
                /\ ran'[task] = IF Due(now, LastRun(task), task) THEN 1 ELSE 0
                /\ ran'[task] = 1 => /\ LastRun(task)' = now
                                     /\ now - LastRun(task) >= Interval(task)
                /\ ran'[task] = 0 => LastRun(task)' = LastRun(task)]_vars
    /\ [][heartbeat_csv' <= heartbeat_csv + 1 /\ dom_snaps' <= dom_snaps + 1]_vars

\* C13 witness: the first depth snapshot of the process ran, once, in an
\* iteration that began two or more of its intervals after startup.
NoCatchUpWitness ==
    /\ pc = "meta"
    /\ ran["dom"] = 1
    /\ dom_snaps = 1
    /\ last_dom_snap = now
    /\ now - last_meta_log >= 2 * Interval("dom")

\* C14: the depth capability is settled by the first response: from "None" an
\* empty or absent book makes it "False" and a book with levels makes it "True".
\* Once "False" it stays so and snap_dom makes no depth call and appends nothing;
\* once "True" it stays so whatever the later responses are.
DepthStateSticky ==
    /\ [][(dom_supported = "None" /\ dom_snaps' # dom_snaps) =>
            /\ dom_book' = "empty" => dom_supported' = "False"
            /\ dom_book' \in {"levels", "nowrite"} => dom_supported' = "True"
            /\ dom_book' = "raises" => dom_supported' = "None"]_vars
    /\ [][dom_supported = "False" =>
            dom_supported' = "False" /\ dom_calls' = dom_calls /\ dom_csv' = dom_csv]_vars
    /\ [][dom_supported = "True" => dom_supported' = "True"]_vars

\* C14 witness: the first response was empty and a later snap_dom has run
\* without a depth call.
DepthStateStickyWitness ==
    /\ dom_supported = "False"
    /\ dom_snaps = 2
    /\ dom_calls = 1
    /\ dom_csv = 0

\* C15: a process that has exited on an interrupt went through the shutdown
\* handler (state saved, connection released), and the persisted watermark is
\* the in-memory one.
GracefulShutdown ==
    pc \in {"stopped", "aborted"} =>
        pc = "stopped" /\ state_file = save_state(last_time_msc)

\* The bars a sync of timeframe tf would fetch now.
Fetched(tf) == Rates(bar_feed[tf], bar_latest[tf])

\* C16: for every timeframe, a sync that changes its CSV or its cursor appends
\* exactly the fetched bars newer than the cursor and sets the cursor to the
\* newest fetched bar, and leaves the other timeframes' cursors alone; when no
\* fetched bar is newer, the cursor already is the newest fetched bar.  The
\* cursor never decreases and no period start is in a CSV twice.
BarDedup ==
    /\ [][\A tf \in TIMEFRAMES :
            (ohlcv_csv'[tf] # ohlcv_csv[tf] \/ ohlcv_last_bar'[tf] # ohlcv_last_bar[tf]) =>
                /\ ohlcv_csv'[tf] = ohlcv_csv[tf] \o SeqOf({b \in Fetched(tf) : b > ohlcv_last_bar[tf]})
                /\ ohlcv_last_bar'[tf] = MaxOf(Fetched(tf))
                /\ \A other \in TIMEFRAMES \ {tf} : ohlcv_last_bar'[other] = ohlcv_last_bar[other]]_vars
    /\ [](\A tf \in TIMEFRAMES :
            (Fetched(tf) # {} /\ \A b \in Fetched(tf) : b <= ohlcv_last_bar[tf]) =>
                ohlcv_last_bar[tf] = MaxOf(Fetched(tf)))
    /\ [][\A tf \in TIMEFRAMES : ohlcv_last_bar'[tf] >= ohlcv_last_bar[tf]]_vars
    /\ [](\A tf \in TIMEFRAMES : \A k, l \in 1..Len(ohlcv_csv[tf]) :
            k # l => ohlcv_csv[tf][k] # ohlcv_csv[tf][l])

\* C16 witness: M1 was synced, a bar closed, and the next sync, whose fetch
\* overlapped the first, appended the new bar only; M5 was never synced.
BarDedupWitness ==
    /\ Len(ohlcv_csv["M1"]) = OHLCV_LOOKBACK + 1
    /\ ohlcv_last_bar["M1"] = OHLCV_LOOKBACK + 1
    /\ ohlcv_last_bar["M5"] = 0

\* C17: the heartbeat step leaves the watermark, the state file, the failure
\* counter, the tick counter, the tick log, the bar cursors, the session label,
\* the depth state and the other tasks' stamps unchanged; when due it appends at
\* most one heartbeat row (none when log_heartbeat fails inside) and sets its own
\* stamp to the iteration's clock reading, and when not due it does neither.
HeartbeatObservational ==
    [][(pc = "heartbeat" /\ pc' # "heartbeat") =>
          /\ UNCHANGED <<last_time_msc, state_file, fail_count, total_ticks, tick_csv,
                         ohlcv_last_bar, _current_session, dom_supported,
                         last_ohlcv_sync, last_dom_snap, last_meta_log>>
          /\ IF now - last_heartbeat >= 1000 * HEARTBEAT_SEC
                THEN /\ heartbeat_csv' \in {heartbeat_csv, heartbeat_csv + 1}
                     /\ last_heartbeat' = now
                ELSE UNCHANGED <<heartbeat_csv, last_heartbeat>>]_vars

\* C17 witness: a heartbeat row was written in an iteration that appended ticks.
HeartbeatObservationalWitness ==
    /\ pc = "sleep"
    /\ ran["heartbeat"] = 1
    /\ heartbeat_csv = 1
    /\ last_heartbeat = now
    /\ same_batch = FALSE
    /\ ticks_raw # <<>>
    /\ state_file = save_state(last_time_msc)

\* C18: the forced reset does not lower the watermark, and after a forced reset
\* no tick is in the tick log twice.
ResetIsAdvancement ==
    /\ [][(pc = "backoff" /\ ResetDue(fail_count) /\ pc' = "top") =>
            last_time_msc' >= last_time_msc]_vars
    /\ [](resets > 0 => \A k, l \in 1..Len(tick_csv) : k # l => tick_csv[k] # tick_csv[l])

\* C19: at the top of every iteration 0 <= fail_count < MAX_FAILS; the counter
\* is MAX_FAILS only in the sleep of the failure handler, whose next step makes
\* it zero; and only the fetch and its failure handler change it.
FailCountRange ==
    /\ [](pc = "top" => (0 <= fail_count /\ fail_count < MAX_FAILS))
    /\ [](fail_count >= MAX_FAILS => (fail_count = MAX_FAILS /\ pc = "backoff"))
    /\ [][(fail_count = MAX_FAILS /\ pc' # pc) => fail_count' = 0]_vars
    /\ [][fail_count' # fail_count => pc \in {"fetch", "backoff"}]_vars

\* C19 witness: the MAX_FAILS-th failure in a row, in an iteration in which a
\* periodic task ran.
FailCountRangeWitness ==
    /\ pc = "backoff"
    /\ fail_count = MAX_FAILS
    /\ ran["dom"] = 1

====
